---- MODULE Spec2Model ----
(***************************************************************************)
(* Trade::MeshData (src/Magnum/Trade/MeshData.h, MeshData.cpp): a mesh     *)
(* container holding two optionally owned byte arrays, one index           *)
(* descriptor and an ordered array of attribute descriptors.               *)
(*                                                                         *)
(* Memory is modelled by regions: "ibuf" is the allocation behind the      *)
(* indexData argument, "vbuf" the one behind vertexData, "ext" is memory   *)
(* the instance never owns (a memory-mapped file).  A pointer is a region  *)
(* and a byte offset in it; a view is a pointer and a size.                *)
(***************************************************************************)
EXTENDS Integers, Sequences, FiniteSets, TLC

VARIABLES mesh, constructed, calls, ret, debug

vars == <<mesh, constructed, calls, ret, debug>>

(* ------------------------------ bounds --------------------------------- *)

MaxIndexBytes == 4
MaxOffset == 1
MaxAttributes == 3
MaxViewAttributes == 2
MaxVertices == 1
MaxCalls == 2

(* ------------------------------ enums ---------------------------------- *)

\* enum class MeshAttributeType: UnsignedByte
Vector2 == 0
Vector3 == 1
Vector4 == 2
MeshAttributeTypes == {Vector2, Vector3, Vector4}

\* enum class MeshAttributeName: UnsignedByte
Positions2D == 0
Positions3D == 1
Normals == 2
TextureCoordinates2D == 3
Colors == 4
Custom == 128

\* MeshIndexType, the three cases the switches of MeshData.cpp handle
MeshIndexTypes == {"UnsignedByte", "UnsignedShort", "UnsignedInt"}

\* the divisor indexCount() applies for each index type
MeshIndexTypeSize(type) ==
    CASE type = "UnsignedByte" -> 1
      [] type = "UnsignedShort" -> 2
      [] type = "UnsignedInt" -> 4

\* the element types T of attribute<T>() and their type tags
ElementTypes == {"Vector2", "Vector3", "Color3", "Vector4", "Color4"}

\* the table with the three-channel colour filed under four channels
meshAttributeTypeForColorSlip(T) ==
    CASE T = "Vector2" -> Vector2
      [] T = "Vector3" -> Vector3
      [] T = "Color3" -> Vector4
      [] T = "Vector4" -> Vector4
      [] T = "Color4" -> Vector4

meshAttributeTypeFor(T) ==
    CASE T = "Vector2" -> Vector2
      [] T = "Vector3" -> Vector3
      [] T = "Color3" -> Vector3
      [] T = "Vector4" -> Vector4
      [] T = "Color4" -> Vector4

\* bytes of one element of an attribute type: 2, 3 or 4 packed floats
MeshAttributeTypeSize(type) ==
    CASE type = Vector2 -> 8
      [] type = Vector3 -> 12
      [] type = Vector4 -> 16

(* ------------------------- pointers and views -------------------------- *)

NullPtr == [base |-> "null", off |-> 0]
Ptr(base, off) == [base |-> base, off |-> off]

\* Containers::Array<char>{nullptr}, also the state of a moved-from Array
NullArray == [data |-> NullPtr, size |-> 0]
\* Containers::ArrayView<char>{nullptr}
NullView == [data |-> NullPtr, size |-> 0]

\* the ArrayView an Array converts to: same pointer, same size
ArrayViewOf(array) == [data |-> array.data, size |-> array.size]

\* Containers::StridedArrayView: pointer, element count, byte stride
StridedView(ptr, size, stride) == [data |-> ptr, size |-> size, stride |-> stride]

(* ------------------------- MeshIndexData ------------------------------- *)

\* MeshIndexData(MeshIndexType, ArrayView<char>): data.size is a byte count
MeshIndexData(type, data) == [type |-> type, data |-> data]

\* MeshIndexData(ArrayView<T>) for T = UnsignedByte, UnsignedShort,
\* UnsignedInt: the view is reinterpreted as an ArrayView<char> as it is, so
\* the stored size is the ELEMENT count of the typed view
MeshIndexDataTyped(T, typedView) ==
    [type |-> T, data |-> [data |-> typedView.data, size |-> typedView.size]]

(* ------------------------- MeshAttributeData --------------------------- *)

\* MeshAttributeData(name, type, StridedArrayView<T>): size stays the element
\* count and stride the byte stride of the typed view
MeshAttributeData(name, type, data) == [name |-> name, type |-> type, data |-> data]

(* ----------------------------- MeshData -------------------------------- *)

NullState == "null"

\* MeshData::MeshData(indexData, vertexData, indices, attributes,
\* importerState): the members are initialised from the arguments and the
\* body asserts nothing
MeshData(indexData, vertexData, indices, attributes, importerState) ==
    [_indexData |-> indexData,
     _vertexData |-> vertexData,
     _indices |-> indices,
     _attributes |-> attributes,
     _importerState |-> importerState]

\* the placeholder of a container that is not constructed
NoMesh ==
    MeshData(NullArray, NullArray, MeshIndexData("UnsignedByte", NullView),
             <<>>, NullState)

(* ----------------------------- accessors ------------------------------- *)

indexData(m) == ArrayViewOf(m._indexData)
vertexData(m) == ArrayViewOf(m._vertexData)

\* bool isIndexed() const { return _indices.data; }: the view's pointer
isIndexed(m) == m._indices.data.data # NullPtr

\* indexCount() with the 16-bit case returning the byte size undivided
indexCountShortAsBytes(m) ==
    CASE m._indices.type = "UnsignedByte" -> m._indices.data.size
      [] m._indices.type = "UnsignedShort" -> m._indices.data.size
      [] m._indices.type = "UnsignedInt" -> m._indices.data.size \div 4

indexCount(m) ==
    CASE m._indices.type = "UnsignedByte" -> m._indices.data.size
      [] m._indices.type = "UnsignedShort" -> m._indices.data.size \div 2
      [] m._indices.type = "UnsignedInt" -> m._indices.data.size \div 4

indexType(m) == m._indices.type

vertexCount(m) ==
    IF m._attributes # <<>> THEN m._attributes[1].data.size ELSE 0

attributeCount(m) == Len(m._attributes)

RECURSIVE attributeCountLoop(_, _, _, _)
attributeCountLoop(attributes, name, i, count) ==
    IF i > Len(attributes) THEN count
    ELSE attributeCountLoop(attributes, name, i + 1,
            IF attributes[i].name = name THEN count + 1 ELSE count)

\* attributeCount(MeshAttributeName)
attributeCountByName(m, name) == attributeCountLoop(m._attributes, name, 1, 0)

hasAttribute(m, name) == attributeCountByName(m, name) # 0

importerState(m) == m._importerState

\* Results of the accessors that assert: status is "ok", or names the
\* assertion that fired ("outOfRange", "improperType"); an assertion that
\* fires ends the call, and value is then -1 or a null view.
Ok(value) == [status |-> "ok", value |-> value]
OutOfRange == [status |-> "outOfRange", value |-> -1]

\* slots are numbered from 0 as in the code; _attributes[id] is attributes[id + 1]
attributeName(m, id) ==
    IF id < Len(m._attributes) THEN Ok(m._attributes[id + 1].name) ELSE OutOfRange

attributeType(m, id) ==
    IF id < Len(m._attributes) THEN Ok(m._attributes[id + 1].type) ELSE OutOfRange

\* id-- on an UnsignedInt: 0 wraps to 2^32 - 1, written here as the largest
\* integer TLC represents (it only has to exceed every array length)
PostDecrement(id) == IF id = 0 THEN 2147483647 ELSE id - 1

\* the loop of attributeFor(): i is the slot, id the remaining count; id-- is
\* evaluated only when the name matches
RECURSIVE attributeForLoop(_, _, _, _)
attributeForLoop(attributes, name, i, id) ==
    IF i = Len(attributes) THEN OutOfRange
    ELSE IF attributes[i + 1].name = name
         THEN IF id = 0 THEN Ok(i)
              ELSE attributeForLoop(attributes, name, i + 1, PostDecrement(id))
         ELSE attributeForLoop(attributes, name, i + 1, id)

\* the loop with the operands of && swapped: id-- evaluated on every iteration
RECURSIVE attributeForLoopEager(_, _, _, _)
attributeForLoopEager(attributes, name, i, id) ==
    IF i = Len(attributes) THEN OutOfRange
    ELSE IF id = 0 /\ attributes[i + 1].name = name THEN Ok(i)
         ELSE attributeForLoopEager(attributes, name, i + 1, PostDecrement(id))

attributeForEager(m, name, id) == attributeForLoopEager(m._attributes, name, 0, id)

\* attributeFor() without the assertion after the loop: falls back to slot 0
attributeForNoAssert(m, name, id) ==
    LET r == attributeForLoop(m._attributes, name, 0, id)
    IN  IF r.status = "ok" THEN r ELSE Ok(0)

attributeFor(m, name, id) == attributeForLoop(m._attributes, name, 0, id)

\* attributeType(MeshAttributeName, UnsignedInt)
attributeTypeByName(m, name, id) ==
    LET slot == attributeFor(m, name, id)
    IN  IF slot.status # "ok" THEN slot ELSE attributeType(m, slot.value)

NullStridedView == StridedView(NullPtr, 0, 0)

\* attribute<T>(id): the range assertion, then the type assertion, then the
\* slot's view cast to T (same pointer, size and stride)
attribute(m, T, id) ==
    IF ~(id < Len(m._attributes))
    THEN [status |-> "outOfRange", value |-> NullStridedView]
    ELSE IF meshAttributeTypeFor(T) # m._attributes[id + 1].type
    THEN [status |-> "improperType", value |-> NullStridedView]
    ELSE Ok(m._attributes[id + 1].data)

\* attribute<T>(MeshAttributeName, UnsignedInt)
attributeByName(m, T, name, id) ==
    LET slot == attributeFor(m, name, id)
    IN  IF slot.status # "ok"
        THEN [status |-> slot.status, value |-> NullStridedView]
        ELSE attribute(m, T, slot.value)

(* --------------------------- typed indices ----------------------------- *)

\* the element types T of indices<T>() and their index type
IndexElementTypes == {"UnsignedByte", "UnsignedShort", "UnsignedInt"}

meshIndexTypeFor(T) ==
    CASE T = "UnsignedByte" -> "UnsignedByte"
      [] T = "UnsignedShort" -> "UnsignedShort"
      [] T = "UnsignedInt" -> "UnsignedInt"

\* sizeof(T) of an index element type
SizeOf(T) == MeshIndexTypeSize(meshIndexTypeFor(T))

\* Containers::arrayCast<T>(ArrayView<char>): the same pointer with
\* size / sizeof(T) elements; the cast expects the byte size to be kept and
\* asserts otherwise
arrayCast(T, view) ==
    LET size == view.size \div SizeOf(T)
    IN  IF size * SizeOf(T) # view.size
        THEN [status |-> "cantReinterpret", value |-> NullView]
        ELSE Ok([data |-> view.data, size |-> size])

\* indices<T>(): the type assertion, then the index view cast to T
indicesAs(m, T) ==
    IF meshIndexTypeFor(T) # m._indices.type
    THEN [status |-> "improperType", value |-> NullView]
    ELSE arrayCast(T, m._indices.data)

\* a view of T reinterpreted as bytes
BytesOf(T, typedView) ==
    [data |-> typedView.data, size |-> typedView.size * SizeOf(T)]

(* ------------------------- memory and indices() ------------------------ *)

\* The bytes the regions hold. No operation of the container writes memory,
\* so the image is fixed; the views choose which bytes are read. The bytes at
\* offsets 3 to 5 are below 128, so that a 32-bit read stays in TLC's integers.
ExtBytes == <<1, 2, 255, 0, 127, 3, 200, 128>>
IbufBytes == <<255, 1, 128, 2, 0, 127, 9, 200>>
VbufBytes == <<7, 0, 63, 128, 64, 1, 255, 2>>

MemoryByte(ptr) ==
    CASE ptr.base = "ext" -> ExtBytes[(ptr.off % 8) + 1]
      [] ptr.base = "ibuf" -> IbufBytes[(ptr.off % 8) + 1]
      [] ptr.base = "vbuf" -> VbufBytes[(ptr.off % 8) + 1]

RECURSIVE LoadBytes(_, _)
\* the unsigned value of the n bytes at ptr, least significant byte first
LoadBytes(ptr, n) ==
    IF n = 0 THEN 0
    ELSE MemoryByte(ptr) + 256 * LoadBytes(Ptr(ptr.base, ptr.off + 1), n - 1)

\* input[i] of an ArrayView<const T>: the i-th element (from 0), an unsigned T
ElementOf(T, typedView, i) ==
    LoadBytes(Ptr(typedView.data.base, typedView.data.off + i * SizeOf(T)), SizeOf(T))

\* Containers::Array<UnsignedInt>{size}: a new allocation (null when empty)
\* holding the given elements
NewArray(elements) ==
    [data |-> IF elements = <<>> THEN NullPtr ELSE Ptr("new", 0),
     size |-> Len(elements),
     elements |-> elements]

\* convertIndices<T>(data): cast, allocate input.size() elements, copy each
\* input[i] into a 32-bit unsigned output[i]
convertIndices(T, data) ==
    LET input == arrayCast(T, data)
    IN  IF input.status # "ok"
        THEN [status |-> input.status, value |-> NewArray(<<>>)]
        ELSE Ok(NewArray([i \in 1..input.value.size |->
                            ElementOf(T, input.value, i - 1)]))

\* Containers::Array<UnsignedInt> indices() const
indices(m) ==
    CASE m._indices.type = "UnsignedByte" -> convertIndices("UnsignedByte", m._indices.data)
      [] m._indices.type = "UnsignedShort" -> convertIndices("UnsignedShort", m._indices.data)
      [] m._indices.type = "UnsignedInt" -> convertIndices("UnsignedInt", m._indices.data)

(* ----------------------- attribute conversions ------------------------- *)

\* the n bytes at ptr, in memory order
ElementBytes(ptr, n) ==
    [j \in 1..n |-> MemoryByte(Ptr(ptr.base, ptr.off + (j - 1)))]

\* input[i] of a StridedArrayView of elements of the given attribute type:
\* the floats of the element, kept as their bytes
StridedElement(view, type, i) ==
    ElementBytes(Ptr(view.data.base, view.data.off + i * view.stride),
                 MeshAttributeTypeSize(type))

\* The rest of a conversion, which the source leaves unfinished: as in
\* convertIndices, a new array of as many elements as the attribute's view
\* has, each copied from the view.
copyAttribute(m, attributeId) ==
    LET a == m._attributes[attributeId + 1]
    IN  Ok(NewArray([i \in 1..a.data.size |->
                       StridedElement(a.data, a.type, i - 1)]))

\* Containers::Array<Vector2> positions2D(UnsignedInt id) const
positions2D(m, id) ==
    LET attributeId == attributeFor(m, Positions2D, id)
    IN  IF attributeId.status # "ok"
        THEN [status |-> attributeId.status, value |-> NewArray(<<>>)]
        ELSE IF m._attributes[attributeId.value + 1].type # Vector2
        THEN [status |-> "internalAssert", value |-> NewArray(<<>>)]
        ELSE copyAttribute(m, attributeId.value)

\* the conversions that are declared only, after the pattern of positions2D:
\* the stored type has to be the one returned
convertAttribute(m, name, type, id) ==
    LET attributeId == attributeFor(m, name, id)
    IN  IF attributeId.status # "ok"
        THEN [status |-> attributeId.status, value |-> NewArray(<<>>)]
        ELSE IF m._attributes[attributeId.value + 1].type # type
        THEN [status |-> "internalAssert", value |-> NewArray(<<>>)]
        ELSE copyAttribute(m, attributeId.value)

\* Containers::Array<Vector3> positions3D(UnsignedInt id) const
positions3D(m, id) == convertAttribute(m, Positions3D, Vector3, id)

\* Containers::Array<Vector3> normals(UnsignedInt id) const
normals(m, id) == convertAttribute(m, Normals, Vector3, id)

\* Containers::Array<Vector2> textureCoordinates2D(UnsignedInt id) const
textureCoordinates2D(m, id) ==
    convertAttribute(m, TextureCoordinates2D, Vector2, id)

\* Containers::Array<Color4> colors(UnsignedInt id) const
colors(m, id) == convertAttribute(m, Colors, Vector4, id)

(* ---------------------------- debug output ----------------------------- *)

\* the values of an UnsignedByte
UnsignedBytes == 0..255

\* what one output operator writes: text and numbers in the order written,
\* a number after its form ("decimal" for an UnsignedByte, "pointer" for a
\* void*)
Written(text) == [status |-> "ok", text |-> text]

\* CORRADE_ASSERT_UNREACHABLE()
Unreachable == [status |-> "unreachable", text |-> <<>>]

\* Debug& operator<<(Debug&, MeshAttributeType)
DebugMeshAttributeType(value) ==
    CASE value = Vector2 -> Written(<<"Trade::MeshAttributeType::Vector2">>)
      [] value = Vector3 -> Written(<<"Trade::MeshAttributeType::Vector3">>)
      [] value = Vector4 -> Written(<<"Trade::MeshAttributeType::Vector4">>)
      [] OTHER -> Written(<<"Trade::MeshAttributeType(", "pointer", value, ")">>)

\* the operator with the first test written as > Custom
DebugMeshAttributeNameAboveCustom(value) ==
    IF value > Custom
    THEN Written(<<"Trade::MeshAttributeName::Custom(", "decimal", value, ")">>)
    ELSE CASE value = Positions2D -> Written(<<"Trade::MeshAttributeName::Positions2D">>)
           [] value = Positions3D -> Written(<<"Trade::MeshAttributeName::Positions3D">>)
           [] value = Normals -> Written(<<"Trade::MeshAttributeName::Normals">>)
           [] value = TextureCoordinates2D ->
                Written(<<"Trade::MeshAttributeName::TextureCoordinates2D">>)
           [] value = Colors -> Written(<<"Trade::MeshAttributeName::Colors">>)
           [] value = Custom -> Unreachable
           [] OTHER -> Written(<<"Trade::MeshAttributeName(", "pointer", value, ")">>)

\* Debug& operator<<(Debug&, MeshAttributeName)
DebugMeshAttributeName(value) ==
    IF value >= Custom
    THEN Written(<<"Trade::MeshAttributeName::Custom(", "decimal", value, ")">>)
    ELSE CASE value = Positions2D -> Written(<<"Trade::MeshAttributeName::Positions2D">>)
           [] value = Positions3D -> Written(<<"Trade::MeshAttributeName::Positions3D">>)
           [] value = Normals -> Written(<<"Trade::MeshAttributeName::Normals">>)
           [] value = TextureCoordinates2D ->
                Written(<<"Trade::MeshAttributeName::TextureCoordinates2D">>)
           [] value = Colors -> Written(<<"Trade::MeshAttributeName::Colors">>)
           [] value = Custom -> Unreachable
           [] OTHER -> Written(<<"Trade::MeshAttributeName(", "pointer", value, ")">>)

(* --------------------- release and move operations --------------------- *)

\* releaseIndices() without the reset of the index view
releaseIndicesKeepView(m) ==
    [result |-> m._indexData, after |-> [m EXCEPT !._indexData = NullArray]]

\* releaseVertices() without the reset of the attribute array
releaseVerticesKeepAttributes(m) ==
    [result |-> m._vertexData, after |-> [m EXCEPT !._vertexData = NullArray]]

\* releaseIndices() that resets the view only when there is storage to return
releaseIndicesOwnedOnly(m) ==
    IF m._indexData = NullArray
    THEN [result |-> NullArray, after |-> m]
    ELSE [result |-> m._indexData,
          after |-> [m EXCEPT !._indices.data = NullView, !._indexData = NullArray]]

\* releaseVertices() that resets the index view as well
releaseVerticesResetIndices(m) ==
    [result |-> m._vertexData,
     after |-> [m EXCEPT !._attributes = <<>>, !._vertexData = NullArray,
                         !._indices.data = NullView]]

\* a move constructor that leaves the importer state of the destination unset
MoveConstructedNoState(m) ==
    [to |-> MeshData(m._indexData, m._vertexData, m._indices, m._attributes,
                     NullState),
     from |-> [m EXCEPT !._indexData = NullArray, !._vertexData = NullArray,
                        !._attributes = <<>>]]

\* releaseIndices(): _indices.data = nullptr; return std::move(_indexData);
\* the returned Array is move-constructed from _indexData, which is left null
releaseIndices(m) ==
    [result |-> m._indexData,
     after |-> [m EXCEPT !._indices.data = NullView, !._indexData = NullArray]]

\* releaseVertices(): _attributes = nullptr; return std::move(_vertexData);
releaseVertices(m) ==
    [result |-> m._vertexData,
     after |-> [m EXCEPT !._attributes = <<>>, !._vertexData = NullArray]]

\* MeshData(MeshData&&) = default: memberwise move. The two Array<char> and
\* the attribute Array give their pointer to the destination and are left null;
\* _indices (a type and a view) and _importerState are trivially copied, and
\* the source keeps them.
MoveConstructed(m) ==
    [to |-> MeshData(m._indexData, m._vertexData, m._indices, m._attributes,
                     m._importerState),
     from |-> [m EXCEPT !._indexData = NullArray, !._vertexData = NullArray,
                        !._attributes = <<>>]]

(* ------------------- bounded constructor arguments --------------------- *)

Containers == {"a", "b"}

ImporterStates == {NullState, "importer"}

StoredNames == {Positions3D, Colors}
QueryNames == {Positions3D, Colors, Custom}

\* an owned Array<char> of the given size (null when the size is 0)
OwnedArray(base, size) ==
    IF size = 0 THEN NullArray ELSE [data |-> Ptr(base, 0), size |-> size]

IndexStorages == {OwnedArray("ibuf", s) : s \in 0..MaxIndexBytes}

\* the regions an index view can point to: memory the instance does not own
\* and, when index storage is supplied, that storage
IndexBases(storage) == IF storage = NullArray THEN {"ext"} ELSE {"ext", "ibuf"}

IndexViews(storage) ==
    {NullView} \cup
    {[data |-> Ptr(b, o), size |-> s] :
        b \in IndexBases(storage), o \in 0..MaxOffset, s \in 0..MaxIndexBytes}

\* descriptors from the runtime-typed constructor and from the three typed
\* ones
IndexDescriptors(storage) ==
    {MeshIndexData(t, v) : t \in MeshIndexTypes, v \in IndexViews(storage)} \cup
    {MeshIndexDataTyped(t, v) : t \in MeshIndexTypes, v \in IndexViews(storage)}

\* a tightly packed attribute of `count` elements at the start of a region
PackedAttribute(name, type, base, count) ==
    MeshAttributeData(name, type,
        StridedView(Ptr(base, 0), count, MeshAttributeTypeSize(type)))

SeqsUpTo(S, n) == UNION {[1..k -> S] : k \in 0..n}

\* attribute arrays that differ in the names only
NamedAttributes ==
    {[i \in DOMAIN names |->
        PackedAttribute(names[i], Vector3, "ext", MaxVertices)] :
        names \in SeqsUpTo(StoredNames, MaxAttributes)}

\* attribute arrays that differ in type and element count; all the views of
\* one array point into the same region
ViewedAttributes(base) ==
    {[i \in DOMAIN shapes |->
        PackedAttribute(Colors, shapes[i][1], base, shapes[i][2])] :
        shapes \in SeqsUpTo(MeshAttributeTypes \X (0..MaxVertices), MaxViewAttributes)}

\* vertex storage holding MaxVertices elements of the middle attribute type
VertexStorages == {NullArray, OwnedArray("vbuf", MaxVertices * MeshAttributeTypeSize(Vector3))}

VertexBases(storage) == IF storage = NullArray THEN {"ext"} ELSE {"ext", "vbuf"}

FullIndexStorage == OwnedArray("ibuf", MaxIndexBytes)

\* the constructor arguments explored: the index half in full with a fixed
\* attribute half, the attribute names in full, and the attribute views in
\* full with a fixed index half
IndexArguments ==
    UNION {
      {[indexData |-> s, vertexData |-> NullArray, indices |-> d,
        attributes |-> a, importerState |-> p] :
          d \in IndexDescriptors(s),
          a \in {<<>>, <<PackedAttribute(Positions3D, Vector3, "ext", MaxVertices)>>},
          p \in ImporterStates} :
      s \in IndexStorages}

NameArguments ==
    {[indexData |-> FullIndexStorage, vertexData |-> NullArray,
      indices |-> MeshIndexData("UnsignedByte", ArrayViewOf(FullIndexStorage)),
      attributes |-> a, importerState |-> "importer"] : a \in NamedAttributes}

ViewArguments ==
    UNION {
      {[indexData |-> NullArray, vertexData |-> s,
        indices |-> MeshIndexData("UnsignedByte", NullView),
        attributes |-> a, importerState |-> NullState] :
          a \in UNION {ViewedAttributes(b) : b \in VertexBases(s)}} :
      s \in VertexStorages}

ConversionNames ==
    {Positions2D, Positions3D, Normals, TextureCoordinates2D, Colors}

\* one attribute of every fixed name, type and element count, alone or after
\* a 3D position attribute of MaxVertices elements
ConversionArguments ==
    {[indexData |-> NullArray, vertexData |-> NullArray,
      indices |-> MeshIndexData("UnsignedByte", NullView),
      attributes |-> lead \o <<PackedAttribute(n, t, "ext", k)>>,
      importerState |-> NullState] :
        lead \in {<<>>, <<PackedAttribute(Positions3D, Vector3, "ext", MaxVertices)>>},
        n \in ConversionNames, t \in MeshAttributeTypes, k \in 0..MaxVertices}

ConstructorArguments ==
    IndexArguments \cup NameArguments \cup ViewArguments \cup ConversionArguments

(* ------------------------------ actions -------------------------------- *)

NoCalls == [releaseIndices |-> 0, releaseVertices |-> 0]

\* the last value written to the debug output, and what was written for it
NoDebug == [op |-> "none", value |-> 0, out |-> Written(<<>>)]

\* the last value returned by a release operation
NoRet == [op |-> "none", c |-> "none", value |-> NullArray]

TotalCalls ==
    calls["a"].releaseIndices + calls["a"].releaseVertices +
    calls["b"].releaseIndices + calls["b"].releaseVertices

Init ==
    /\ mesh = [c \in Containers |-> NoMesh]
    /\ constructed = {}
    /\ calls = [c \in Containers |-> NoCalls]
    /\ ret = NoRet
    /\ debug = NoDebug

\* MeshData a{indexData, vertexData, indices, attributes, importerState};
Construct ==
    /\ constructed = {}
    /\ \E args \in ConstructorArguments :
         mesh' = [mesh EXCEPT !["a"] =
                    MeshData(args.indexData, args.vertexData, args.indices,
                             args.attributes, args.importerState)]
    /\ constructed' = {"a"}
    /\ UNCHANGED <<calls, ret, debug>>

\* MeshData b{std::move(a)};
MoveConstruct ==
    /\ "a" \in constructed
    /\ "b" \notin constructed
    /\ mesh' = [mesh EXCEPT !["b"] = MoveConstructed(mesh["a"]).to,
                            !["a"] = MoveConstructed(mesh["a"]).from]
    /\ constructed' = constructed \cup {"b"}
    /\ UNCHANGED <<calls, ret, debug>>

\* c.releaseIndices();
ReleaseIndices(c) ==
    /\ c \in constructed
    /\ TotalCalls < MaxCalls
    /\ mesh' = [mesh EXCEPT ![c] = releaseIndices(mesh[c]).after]
    /\ ret' = [op |-> "releaseIndices", c |-> c, value |-> releaseIndices(mesh[c]).result]
    /\ calls' = [calls EXCEPT ![c].releaseIndices = @ + 1]
    /\ UNCHANGED <<constructed, debug>>

\* c.releaseVertices();
ReleaseVertices(c) ==
    /\ c \in constructed
    /\ TotalCalls < MaxCalls
    /\ mesh' = [mesh EXCEPT ![c] = releaseVertices(mesh[c]).after]
    /\ ret' = [op |-> "releaseVertices", c |-> c, value |-> releaseVertices(mesh[c]).result]
    /\ calls' = [calls EXCEPT ![c].releaseVertices = @ + 1]
    /\ UNCHANGED <<constructed, debug>>

Next ==
    \/ Construct
    \/ MoveConstruct
    \/ \E c \in Containers : ReleaseIndices(c)
    \/ \E c \in Containers : ReleaseVertices(c)

Spec == Init /\ [][Next]_vars

\* Debug{} << MeshAttributeName(value);
OutputMeshAttributeName(value) ==
    /\ debug' = [op |-> "name", value |-> value,
                 out |-> DebugMeshAttributeName(value)]
    /\ UNCHANGED <<mesh, constructed, calls, ret>>

\* Debug{} << MeshAttributeType(value);
OutputMeshAttributeType(value) ==
    /\ debug' = [op |-> "type", value |-> value,
                 out |-> DebugMeshAttributeType(value)]
    /\ UNCHANGED <<mesh, constructed, calls, ret>>

NextDebug ==
    \/ \E value \in UnsignedBytes : OutputMeshAttributeName(value)
    \/ \E value \in UnsignedBytes : OutputMeshAttributeType(value)

\* the output operators alone, applied to every value of the byte
SpecDebug == Init /\ [][NextDebug]_vars

(* ------------------------------- claims -------------------------------- *)

Constructed(c) == c \in constructed

\* bytes covered by a strided view of elements of the attribute's type
StridedExtent(a) ==
    IF a.data.size = 0 THEN 0
    ELSE (a.data.size - 1) * a.data.stride + MeshAttributeTypeSize(a.type)

\* the byte range [ptr, ptr + bytes) lies in the array's allocation
InArray(ptr, bytes, array) ==
    \/ bytes = 0
    \/ /\ ptr.base = array.data.base
       /\ ptr.off >= array.data.off
       /\ ptr.off + bytes <= array.data.off + array.size

\* C1: in every constructed container vertexCount() equals the element count
\* of every attribute's view (a construction with differing counts would have
\* been rejected).
C1_VertexCountOfEveryAttribute ==
    \A c \in constructed :
        \A i \in 1..Len(mesh[c]._attributes) :
            mesh[c]._attributes[i].data.size = vertexCount(mesh[c])

\* C2: no constructed container has an index view whose byte length is not a
\* multiple of the element width of its index type.
C2_IndexBytesMultipleOfWidth ==
    \A c \in constructed :
        mesh[c]._indices.data.size % MeshIndexTypeSize(mesh[c]._indices.type) = 0

\* C3 as stated: in every reachable state indexCount() times the element width
\* equals indexData().size().
C3_IndexCountTimesWidthIsIndexDataSize ==
    \A c \in constructed :
        indexCount(mesh[c]) * MeshIndexTypeSize(indexType(mesh[c]))
            = indexData(mesh[c]).size

\* C3 amended: in every reachable state indexCount() times the element width
\* is the largest multiple of the width that does not exceed the byte length
\* of the index descriptor's view (not of indexData(), the owned storage).
C3_IndexCountIsViewBytesDivWidth ==
    \A c \in constructed :
        LET n == indexCount(mesh[c])
            w == MeshIndexTypeSize(indexType(mesh[c]))
            bytes == mesh[c]._indices.data.size
        IN  /\ n * w <= bytes
            /\ bytes < n * w + w

\* a container on memory it does not own: no index storage, two or more
\* 16-bit indices in the view
C3_Witness ==
    /\ Constructed("a")
    /\ mesh["a"]._indexData = NullArray
    /\ isIndexed(mesh["a"])
    /\ indexType(mesh["a"]) = "UnsignedShort"
    /\ indexCount(mesh["a"]) >= 2

\* C4: when the owned index storage is non-empty the index view lies inside
\* it, and when the owned vertex storage is non-empty every attribute view
\* lies inside it.
C4_ViewsInsideOwnedStorage ==
    \A c \in constructed :
        /\ mesh[c]._indexData # NullArray =>
              InArray(mesh[c]._indices.data.data, mesh[c]._indices.data.size,
                      mesh[c]._indexData)
        /\ mesh[c]._vertexData # NullArray =>
              \A i \in 1..Len(mesh[c]._attributes) :
                  InArray(mesh[c]._attributes[i].data.data,
                          StridedExtent(mesh[c]._attributes[i]),
                          mesh[c]._vertexData)

\* slots below slot i (numbered from 0) that hold the name
SlotsBelow(m, name, i) == {j \in 0..(i - 1) : m._attributes[j + 1].name = name}

\* C5: for n < attributeCount(name), attributeFor(name, n) returns the slot
\* that holds the name and has exactly n slots with that name below it.
C5_AttributeForIsNthOccurrence ==
    \A c \in constructed : \A name \in QueryNames : \A n \in 0..MaxAttributes :
        n < attributeCountByName(mesh[c], name) =>
            LET r == attributeFor(mesh[c], name, n)
            IN  /\ r.status = "ok"
                /\ r.value \in 0..(attributeCount(mesh[c]) - 1)
                /\ mesh[c]._attributes[r.value + 1].name = name
                /\ Cardinality(SlotsBelow(mesh[c], name, r.value)) = n

\* [Colors, Positions3D, Colors]: the second Colors is found at slot 2
C5_Witness ==
    /\ Constructed("a")
    /\ attributeCount(mesh["a"]) = 3
    /\ attributeName(mesh["a"], 0) = Ok(Colors)
    /\ attributeName(mesh["a"], 1) = Ok(Positions3D)
    /\ attributeName(mesh["a"], 2) = Ok(Colors)
    /\ attributeFor(mesh["a"], Colors, 0) = Ok(0)
    /\ attributeFor(mesh["a"], Colors, 1) = Ok(2)

\* C6: attributeFor(name, n), attributeType(name, n) and attribute<T>(name, n)
\* take the out-of-range path exactly when n >= attributeCount(name), and a
\* slot that is returned holds the requested name.
C6_OutOfRangeIffNotEnough ==
    \A c \in constructed : \A name \in QueryNames : \A n \in 0..(MaxAttributes + 1) :
        LET short == n >= attributeCountByName(mesh[c], name)
            r == attributeFor(mesh[c], name, n)
        IN  /\ (r.status = "outOfRange") <=> short
            /\ (attributeTypeByName(mesh[c], name, n).status = "outOfRange") <=> short
            /\ \A T \in ElementTypes :
                 (attributeByName(mesh[c], T, name, n).status = "outOfRange") <=> short
            /\ ~hasAttribute(mesh[c], name) => r.status = "outOfRange"
            /\ r.status = "ok" => attributeName(mesh[c], r.value) = Ok(name)

\* a mesh with attributes, none of them the requested name, and another name
\* asked one occurrence too far
C6_Witness ==
    /\ Constructed("a")
    /\ attributeCount(mesh["a"]) = 2
    /\ ~hasAttribute(mesh["a"], Colors)
    /\ attributeFor(mesh["a"], Colors, 0).status = "outOfRange"
    /\ attributeFor(mesh["a"], Positions3D, 1).status = "ok"
    /\ attributeFor(mesh["a"], Positions3D, 2).status = "outOfRange"

\* the step is a call of releaseIndices() on c
ReleaseIndicesStep(c) == calls'[c].releaseIndices = calls[c].releaseIndices + 1
\* the step is a call of releaseVertices() on c
ReleaseVerticesStep(c) == calls'[c].releaseVertices = calls[c].releaseVertices + 1

\* C7: a releaseIndices() call returns the index storage the container owned
\* and leaves it non-indexed with indexCount() 0; a later call returns an empty
\* buffer; once released the container stays non-indexed.
C7_ReleaseIndices ==
    /\ [](\A c \in constructed :
            calls[c].releaseIndices >= 1 =>
                ~isIndexed(mesh[c]) /\ indexCount(mesh[c]) = 0)
    /\ [][\A c \in Containers :
            ReleaseIndicesStep(c) =>
                /\ ret'.op = "releaseIndices" /\ ret'.c = c
                /\ ret'.value = mesh[c]._indexData
                /\ calls[c].releaseIndices >= 1 => ret'.value = NullArray
                /\ ~isIndexed(mesh'[c])
                /\ indexCount(mesh'[c]) = 0
                /\ indexData(mesh'[c]) = NullView]_vars

\* after the second releaseIndices() on a container that owned its indices
C7_Witness ==
    \E c \in constructed :
        /\ calls[c].releaseIndices = 2
        /\ ret = [op |-> "releaseIndices", c |-> c, value |-> NullArray]
        /\ ~isIndexed(mesh[c])

\* C8: a releaseVertices() call returns the vertex storage the container
\* owned and leaves it with no attributes, vertexCount() 0 and empty
\* vertexData(); a second call returns an empty buffer.
C8_ReleaseVertices ==
    /\ [](\A c \in constructed :
            calls[c].releaseVertices >= 1 =>
                /\ attributeCount(mesh[c]) = 0
                /\ vertexCount(mesh[c]) = 0
                /\ \A name \in QueryNames : ~hasAttribute(mesh[c], name)
                /\ vertexData(mesh[c]) = NullView)
    /\ [][\A c \in Containers :
            ReleaseVerticesStep(c) =>
                /\ ret'.op = "releaseVertices" /\ ret'.c = c
                /\ ret'.value = mesh[c]._vertexData
                /\ calls[c].releaseVertices >= 1 => ret'.value = NullArray
                /\ attributeCount(mesh'[c]) = 0
                /\ vertexCount(mesh'[c]) = 0
                /\ vertexData(mesh'[c]) = NullView]_vars

\* after a releaseVertices() that returned owned vertex storage
C8_Witness ==
    \E c \in constructed :
        /\ calls[c].releaseVertices = 1
        /\ ret.op = "releaseVertices" /\ ret.c = c
        /\ ret.value # NullArray
        /\ attributeCount(mesh[c]) = 0

\* C9: once b is move-constructed from a, a has empty index and vertex
\* storage, no attributes and no indices.
C9_MovedFromIsEmpty ==
    Constructed("b") =>
        /\ indexData(mesh["a"]) = NullView
        /\ vertexData(mesh["a"]) = NullView
        /\ attributeCount(mesh["a"]) = 0
        /\ ~isIndexed(mesh["a"])
        /\ indexCount(mesh["a"]) = 0

\* what the accessors of a container return
Accessors(m) ==
    [isIndexed |-> isIndexed(m),
     indexCount |-> indexCount(m),
     indexType |-> indexType(m),
     indexData |-> indexData(m),
     vertexData |-> vertexData(m),
     vertexCount |-> vertexCount(m),
     attributeCount |-> attributeCount(m),
     attributeName |-> [i \in 0..MaxAttributes |-> attributeName(m, i)],
     attributeType |-> [i \in 0..MaxAttributes |-> attributeType(m, i)],
     attributeFor |-> [q \in QueryNames \X (0..MaxAttributes) |->
                          attributeFor(m, q[1], q[2])],
     importerState |-> importerState(m)]

\* the step move-constructs b
MoveStep == ~Constructed("b") /\ "b" \in constructed'

\* C10: every accessor of the destination returns, right after the move,
\* what it returned on the source right before.
C10_DestinationReproducesSource ==
    [][MoveStep => Accessors(mesh'["b"]) = Accessors(mesh["a"])]_vars

\* a move of an indexed mesh that owns its index storage and has importer state
C10_Witness ==
    /\ Constructed("b")
    /\ calls = [c \in Containers |-> NoCalls]
    /\ isIndexed(mesh["b"])
    /\ indexData(mesh["b"]) # NullView
    /\ attributeCount(mesh["b"]) > 0
    /\ importerState(mesh["b"]) # NullState

\* C11: indices<T>() returns a view exactly when T is the element type of
\* the stored index type, and that view taken back to bytes is the stored
\* index byte range; for any other T it takes the improper-type path and
\* returns no view.
C11_TypedIndicesRoundTrip ==
    \A c \in constructed : \A T \in IndexElementTypes :
        LET r == indicesAs(mesh[c], T)
        IN  /\ meshIndexTypeFor(T) = indexType(mesh[c]) =>
                /\ r.status = "ok"
                /\ BytesOf(T, r.value) = mesh[c]._indices.data
            /\ meshIndexTypeFor(T) # indexType(mesh[c]) =>
                /\ r.status = "improperType"
                /\ r.value = NullView

\* the type tag the element type T stands for: two, three or four floats
TagOf(T) ==
    IF T = "Vector2" THEN Vector2
    ELSE IF T \in {"Vector3", "Color3"} THEN Vector3
    ELSE Vector4

StoredIndex(m, i) ==
    LET w == MeshIndexTypeSize(m._indices.type)
        at == m._indices.data.data
    IN  LoadBytes(Ptr(at.base, at.off + i * w), w)

\* C13: indices() returns a new array of exactly indexCount() elements, the
\* i-th being the zero-extended i-th stored index, for every index type; on a
\* non-indexed mesh the array is empty.
C13_WidenedIndices ==
    \A c \in constructed :
        LET r == indices(mesh[c])
        IN  /\ r.status = "ok"
            /\ r.value.size = indexCount(mesh[c])
            /\ Len(r.value.elements) = indexCount(mesh[c])
            /\ \A i \in 1..Len(r.value.elements) :
                 r.value.elements[i] = StoredIndex(mesh[c], i - 1)
            /\ r.value.data.base \notin {"ext", "ibuf", "vbuf"}
            /\ ~isIndexed(mesh[c]) => r.value.elements = <<>>

\* MeshIndexType{}: the value-initialised index type, the enumerator of value
\* zero
DefaultIndexType == "UnsignedByte"

\* C14: whenever the mesh is not indexed, indexType() is the default-constructed
\* index type; in particular after releaseIndices() it no longer reports the
\* type the mesh was constructed with.
C14_IndexTypeDefaultWhenNotIndexed ==
    \A c \in constructed :
        ~isIndexed(mesh[c]) => indexType(mesh[c]) = DefaultIndexType

\* the five conversions of a mesh for one id, each with the attribute name
\* it looks up and the attribute type it returns
Conversions(m, id) ==
    {[name |-> Positions2D, type |-> Vector2, result |-> positions2D(m, id)],
     [name |-> Positions3D, type |-> Vector3, result |-> positions3D(m, id)],
     [name |-> Normals, type |-> Vector3, result |-> normals(m, id)],
     [name |-> TextureCoordinates2D, type |-> Vector2,
      result |-> textureCoordinates2D(m, id)],
     [name |-> Colors, type |-> Vector4, result |-> colors(m, id)]}

\* C15: a conversion fails when there are fewer than id + 1 attributes of its
\* name; otherwise, the stored type being the one it returns, it gives a new
\* array of exactly vertexCount() elements, the values of the id-th attribute
\* of that name in order.
C15_ConversionsCopyAttribute ==
    \A c \in constructed : \A id \in 0..MaxAttributes :
        \A conv \in Conversions(mesh[c], id) :
            IF attributeCountByName(mesh[c], conv.name) <= id
            THEN conv.result.status = "outOfRange"
            ELSE LET a == mesh[c]._attributes[
                              attributeFor(mesh[c], conv.name, id).value + 1]
                     r == conv.result
                 IN  a.type = conv.type =>
                       /\ r.status = "ok"
                       /\ r.value.size = vertexCount(mesh[c])
                       /\ Len(r.value.elements) = vertexCount(mesh[c])
                       /\ \A i \in 1..Len(r.value.elements) :
                            r.value.elements[i] = StridedElement(a.data, a.type, i - 1)
                       /\ r.value.data.base \notin {"ext", "ibuf", "vbuf"}

\* the identifiers of the fixed attribute names and of the attribute types
NameIdentifier(value) ==
    CASE value = 0 -> "Positions2D" [] value = 1 -> "Positions3D"
      [] value = 2 -> "Normals" [] value = 3 -> "TextureCoordinates2D"
      [] value = 4 -> "Colors"

TypeIdentifier(value) ==
    CASE value = 0 -> "Vector2" [] value = 1 -> "Vector3" [] value = 2 -> "Vector4"

\* C16: writing an attribute name or type succeeds for every byte value: a
\* name of 128 or more is written as Custom(value), each of the five fixed
\* names and three types as its own identifier, every other value in the
\* generic numeric form; the unreachable branch is never taken.
C16_DebugOutputNeverFails ==
    /\ debug.out.status = "ok"
    /\ debug.op = "name" =>
         debug.out.text =
           IF debug.value >= 128
           THEN <<"Trade::MeshAttributeName::Custom(", "decimal", debug.value, ")">>
           ELSE IF debug.value <= 4
           THEN <<"Trade::MeshAttributeName::" \o NameIdentifier(debug.value)>>
           ELSE <<"Trade::MeshAttributeName(", "pointer", debug.value, ")">>
    /\ debug.op = "type" =>
         debug.out.text =
           IF debug.value <= 2
           THEN <<"Trade::MeshAttributeType::" \o TypeIdentifier(debug.value)>>
           ELSE <<"Trade::MeshAttributeType(", "pointer", debug.value, ")">>

C16_Witness ==
    /\ debug.op = "name"
    /\ debug.value = Custom
    /\ debug.out = Written(<<"Trade::MeshAttributeName::Custom(", "decimal", 128, ")">>)

\* C17: releaseIndices() leaves the vertex storage, the attribute array and
\* importerState() as they were; releaseVertices() leaves the index storage,
\* the index type and view (so isIndexed() and indexCount()) and
\* importerState() as they were; no step changes the importerState() of a
\* constructed container.
C17_ReleaseChangesOwnHalfOnly ==
    [][\A c \in Containers :
         /\ ReleaseIndicesStep(c) =>
              /\ mesh'[c]._vertexData = mesh[c]._vertexData
              /\ mesh'[c]._attributes = mesh[c]._attributes
              /\ vertexData(mesh'[c]) = vertexData(mesh[c])
              /\ vertexCount(mesh'[c]) = vertexCount(mesh[c])
         /\ ReleaseVerticesStep(c) =>
              /\ mesh'[c]._indexData = mesh[c]._indexData
              /\ mesh'[c]._indices = mesh[c]._indices
              /\ indexData(mesh'[c]) = indexData(mesh[c])
              /\ isIndexed(mesh'[c]) = isIndexed(mesh[c])
              /\ indexCount(mesh'[c]) = indexCount(mesh[c])
              /\ indexType(mesh'[c]) = indexType(mesh[c])
         /\ c \in constructed =>
              importerState(mesh'[c]) = importerState(mesh[c])]_vars

\* after releaseVertices() alone on an indexed container with an importer state
C17_Witness ==
    \E c \in constructed :
        /\ calls[c].releaseVertices = 1
        /\ calls[c].releaseIndices = 0
        /\ ret.op = "releaseVertices" /\ ret.c = c
        /\ attributeCount(mesh[c]) = 0
        /\ isIndexed(mesh[c])
        /\ indexCount(mesh[c]) = MaxIndexBytes
        /\ indexData(mesh[c]).size = MaxIndexBytes
        /\ importerState(mesh[c]) = "importer"

\* C18: on a container that has index or vertex descriptors but does not own
\* the storage (null buffer), releaseIndices() / releaseVertices() returns an
\* empty buffer and still resets the descriptors: the mesh becomes non-indexed
\* / without attributes.
C18_ReleaseOfNonOwnedStorage ==
    [][\A c \in Containers :
         /\ ( /\ ReleaseIndicesStep(c)
              /\ mesh[c]._indexData = NullArray
              /\ isIndexed(mesh[c]) ) =>
                /\ ret'.value = NullArray
                /\ ~isIndexed(mesh'[c])
                /\ indexCount(mesh'[c]) = 0
                /\ mesh'[c]._indexData = NullArray
         /\ ( /\ ReleaseVerticesStep(c)
              /\ mesh[c]._vertexData = NullArray
              /\ attributeCount(mesh[c]) > 0 ) =>
                /\ ret'.value = NullArray
                /\ attributeCount(mesh'[c]) = 0
                /\ vertexCount(mesh'[c]) = 0
                /\ mesh'[c]._vertexData = NullArray]_vars

\* "a" was built indexed over storage it does not own and "b" was
\* move-constructed from it, so "b" still shows the index half "a" had (the
\* move leaves that half of "a" as it was); releaseIndices() on "a" then
\* returned an empty buffer and left "a" non-indexed
C18_Witness ==
    /\ Constructed("a") /\ Constructed("b")
    /\ calls["b"] = NoCalls
    /\ mesh["b"]._indexData = NullArray
    /\ isIndexed(mesh["b"])
    /\ indexCount(mesh["b"]) > 0
    /\ calls["a"] = [releaseIndices |-> 1, releaseVertices |-> 0]
    /\ ret = [op |-> "releaseIndices", c |-> "a", value |-> NullArray]
    /\ ~isIndexed(mesh["a"])

====
